---- MODULE Spec2Model ----
(***************************************************************************)
(* A model of SimpleVector<Type> (src/simple-vector/simple_vector.h).      *)
(*                                                                         *)
(* Two vector objects, "a" and "b", live side by side.  A vector is the    *)
(* record of its three data members: items (the slots of the buffer owned  *)
(* by items_, as a sequence), size (size_) and capacity (capacity_).       *)
(* Positions are the 0-based indices of the C++ code; Get and Put turn     *)
(* them into the 1-based indices of a TLA+ sequence.  Each vector's record  *)
(* holds the contents of the block its items_ points at; alias tells       *)
(* whether the two pointers are one and the same block.                    *)
(*                                                                         *)
(* ArrayPtr (array_ptr.h) is not part of src/; it is modelled from         *)
(* section 6 of the specification.                                         *)
(***************************************************************************)
EXTENDS Integers, Sequences, FiniteSets, TLC

\* Bound: the total number of slots the two vectors may own at a time.
MaxHeap == 4

\* Bound: the largest size, capacity or list length a constructor is given.
MaxCtor == 2

\* Type(): the value-initialised element.
Default == 0

\* The element type, abstracted to two values: Type() and one value that
\* differs from it.  Every call writes to a slot an element it was given, an
\* element of another slot, or Type(); a slot that ends up with the wrong one
\* of them shows as soon as the two candidates differ, for which two values
\* are enough.
Values == {Default, Default + 1}

Vecs == {"a", "b"}

VARIABLES
    vecs,      \* vecs[v]: the data members of vector v
    last,      \* the last call: the operation and how it ended
    undo,      \* the last call was Insert, or the Erase that takes its
               \* element out again: where, and the elements before the Insert
    ub,        \* TRUE once a call has accessed a slot outside its buffer
    alias      \* TRUE while items_ of the two vectors point at the same block

vars == <<vecs, last, undo, ub, alias>>

Other(v) == CHOOSE o \in Vecs : o # v

Max(x, y) == IF x >= y THEN x ELSE y

----------------------------------------------------------------------------
(* The buffer. *)

Get(buf, p) == buf[p + 1]

Put(buf, p, val) == [buf EXCEPT ![p + 1] = val]

RECURSIVE SeqsOfLen(_)
SeqsOfLen(n) ==
    IF n = 0 THEN {<<>>}
    ELSE {Append(s, x) : s \in SeqsOfLen(n - 1), x \in Values}

RECURSIVE Repeat(_, _)
Repeat(x, n) == IF n = 0 THEN <<>> ELSE Append(Repeat(x, n - 1), x)

\* ArrayPtr<Type>(n): n slots that are default-constructed or hold whatever
\* the allocator left there (one arbitrary value; any other pattern of left
\* over values arises in the slots past size_ of a vector that shrank);
\* n = 0 gives the null owner.
ArrayPtrNew(n) == {Repeat(x, n) : x \in Values}

\* One of them, for the callers that overwrite every slot before the buffer
\* can be read.
SomeNew(n) == CHOOSE buf \in ArrayPtrNew(n) : TRUE

\* The null owner a default-constructed or moved-from ArrayPtr holds.
ArrayPtrNull == <<>>

\* std::copy / std::move of [first, last) of src to dst, starting at d_first.
RECURSIVE Copy(_, _, _, _, _)
Copy(src, first, lst, dst, d_first) ==
    IF first >= lst THEN dst
    ELSE Copy(src, first + 1, lst, Put(dst, d_first, Get(src, first)), d_first + 1)

\* std::move of [first, last) to d_first inside one buffer, front to back.
RECURSIVE MoveFwd(_, _, _, _)
MoveFwd(buf, first, lst, d_first) ==
    IF first >= lst THEN buf
    ELSE MoveFwd(Put(buf, d_first, Get(buf, first)), first + 1, lst, d_first + 1)

\* std::copy_backward / std::move_backward of [first, last) to the range
\* ending at d_last inside one buffer, back to front.
RECURSIVE CopyBackward(_, _, _, _)
CopyBackward(buf, first, lst, d_last) ==
    IF first >= lst THEN buf
    ELSE CopyBackward(Put(buf, d_last - 1, Get(buf, lst - 1)), first, lst - 1, d_last - 1)

\* std::fill, and the loops that assign Type() to [first, last).
RECURSIVE Fill(_, _, _, _)
Fill(buf, first, lst, val) ==
    IF first >= lst THEN buf
    ELSE Fill(Put(buf, first, val), first + 1, lst, val)

----------------------------------------------------------------------------
(* The vector. *)

Vec(items, size, capacity) ==
    [items |-> items, size |-> size, capacity |-> capacity]

\* SimpleVector() noexcept = default
Empty == Vec(ArrayPtrNull, 0, 0)

\* What begin()..end() ranges over; -1 stands for a read outside the buffer.
Logical(vec) ==
    IF vec.size <= Len(vec.items)
    THEN SubSeq(vec.items, 1, vec.size)
    ELSE vec.items \o Repeat(-1, vec.size - Len(vec.items))

\* The buffer has the slots 0..hi-1 the call is going to touch.
InBounds(vec, hi) == hi <= Len(vec.items)

\* SimpleVector(size_t size)
Sized(n, fresh) == Vec(Fill(fresh, 0, n, Default), n, n)

\* SimpleVector(size_t size, const Type& value)
SizedFill(n, value, fresh) == Vec(Fill(fresh, 0, n, value), n, n)

\* SimpleVector(std::initializer_list<Type> init)
FromList(init, fresh) == Vec(Copy(init, 0, Len(init), fresh, 0), Len(init), Len(init))

\* SimpleVector(ReserveProxyObj obj)
FromReserve(n, fresh) == Vec(fresh, 0, n)

\* SimpleVector(const SimpleVector& other)
CopyCtor(other, fresh) ==
    Vec(Copy(other.items, 0, other.size, fresh, 0), other.size, other.capacity)

\* operator=(const SimpleVector& rhs), this != &rhs, nothing thrown
CopyAssign(lhs, rhs, fresh) ==
    LET swapped == [lhs EXCEPT !.items = fresh]
        copied  == [swapped EXCEPT !.items = Copy(rhs.items, 0, rhs.size, swapped.items, 0)]
    IN  [copied EXCEPT !.size = rhs.size, !.capacity = rhs.capacity]

\* operator=(const SimpleVector& rhs) when ArrayPtr<Type> other(rhs.capacity_)
\* throws: the state the exception leaves behind.
CopyAssignBadAlloc(lhs, rhs) == lhs

\* operator=(const SimpleVector& rhs) when std::copy throws on the k-th
\* element (k elements were copied): the state the exception leaves behind.
CopyAssignCopyThrown(lhs, rhs, fresh, k) ==
    LET swapped == [lhs EXCEPT !.items = fresh]
    IN  [swapped EXCEPT !.items = Copy(rhs.items, 0, k, swapped.items, 0)]

\* operator[](index): the slot the returned reference refers to.
Subscript(vec, index) == [exc |-> "none", off |-> index]

\* At that compares the index with capacity_.
AtChecksCapacity(vec, index) ==
    IF index >= vec.capacity
    THEN [exc |-> "out_of_range", off |-> -1]
    ELSE [exc |-> "none", off |-> index]

\* At(index), both overloads: the exception it throws, or the slot the
\* returned reference refers to.
At(vec, index) ==
    IF index >= vec.size
    THEN [exc |-> "out_of_range", off |-> -1]
    ELSE [exc |-> "none", off |-> index]

\* operator[](index) = value: a write through the reference it returns.
SetAt(vec, index, value) == [vec EXCEPT !.items = Put(vec.items, index, value)]

\* Clear()
Clear(vec) == [vec EXCEPT !.size = 0]

\* NewCapacity with the growth factor forgotten: always the requested size.
NewCapacityExact(new_size, capacity) == new_size

\* NewCapacity with the wrong growth factor.
NewCapacityTriple(new_size, capacity) == Max(new_size, 3 * capacity)

\* std::max(new_size, 2 * capacity_)
NewCapacity(new_size, capacity) == Max(new_size, 2 * capacity)

\* Resize that trusts the slots past size_ to hold Type() already when it
\* grows in place.
ResizeNoFill(vec, new_size, fresh) ==
    IF new_size <= vec.capacity THEN
        [vec EXCEPT !.size = new_size]
    ELSE
        LET new_capacity == NewCapacity(new_size, vec.capacity)
            moved == Copy(vec.items, 0, vec.size, fresh, 0)
            new_items == Fill(moved, vec.size, new_size, Default)
        IN  Vec(new_items, new_size, new_capacity)

\* Resize(new_size); fresh is the buffer new_items gets when it reallocates.
Resize(vec, new_size, fresh) ==
    IF new_size <= vec.size THEN
        [vec EXCEPT !.size = new_size]
    ELSE IF new_size <= vec.capacity THEN
        [vec EXCEPT !.items = Fill(vec.items, vec.size, new_size, Default),
                    !.size = new_size]
    ELSE
        LET new_capacity == NewCapacity(new_size, vec.capacity)
            moved == Copy(vec.items, 0, vec.size, fresh, 0)
            new_items == Fill(moved, vec.size, new_size, Default)
        IN  Vec(new_items, new_size, new_capacity)

\* Resize that sets size_ before it allocates.
ResizeBadAllocSizeSet(vec, new_size) == [vec EXCEPT !.size = new_size]

\* Resize(new_size) when ArrayPtr<Type> new_items(new_capacity) throws.
ResizeBadAlloc(vec, new_size) == vec

\* The slots Resize(new_size) touches in the buffer it starts with.
ResizeTouches(vec, new_size) ==
    IF new_size <= vec.size THEN 0
    ELSE IF new_size <= vec.capacity THEN new_size
    ELSE vec.size

\* The buffers Resize(new_size) may get from the allocator.
ResizeFresh(vec, new_size) ==
    IF new_size > vec.capacity
    THEN ArrayPtrNew(NewCapacity(new_size, vec.capacity))
    ELSE {ArrayPtrNull}

\* The slots the vector owns after Resize(new_size).
ResizeSlots(vec, new_size) ==
    IF new_size > vec.capacity
    THEN NewCapacity(new_size, vec.capacity)
    ELSE Len(vec.items)

\* PushBack that grows the vector and does not store the item.
PushBackNoStore(vec, item, fresh) == Resize(vec, vec.size + 1, fresh)

\* PushBack(item), both overloads.
PushBack(vec, item, fresh) ==
    LET r == Resize(vec, vec.size + 1, fresh)
    IN  [r EXCEPT !.items = Put(r.items, r.size - 1, item)]

\* PushBack(const Type&) when the assignment of item throws.
PushBackCopyThrown(vec, fresh) == Resize(vec, vec.size + 1, fresh)

\* Insert that shifts with std::copy, front to back, over the overlap.
InsertShiftsForward(vec, index, value, fresh) ==
    LET r == Resize(vec, vec.size + 1, fresh)
        shifted == MoveFwd(r.items, index, r.size - 1, index + 1)
    IN  [r EXCEPT !.items = Put(shifted, index, value)]

\* Insert(pos, value), both overloads, pos = begin() + index.
Insert(vec, index, value, fresh) ==
    LET r == Resize(vec, vec.size + 1, fresh)
        shifted == CopyBackward(r.items, index, r.size - 1, r.size)
    IN  [r EXCEPT !.items = Put(shifted, index, value)]

\* PushBack(item) with item a reference to slot j of the vector itself.  When
\* Resize reallocates, the block item refers to is released before item is
\* read: the read is undefined, and stale is the value it happens to give.
PushBackAliased(vec, j, fresh, stale) ==
    LET r == Resize(vec, vec.size + 1, fresh)
        item == IF vec.size + 1 > vec.capacity THEN stale ELSE Get(r.items, j)
    IN  [r EXCEPT !.items = Put(r.items, r.size - 1, item)]

\* Insert(pos, value) with value a reference to slot j of the vector itself:
\* value is read after Resize and std::copy_backward have run.
InsertAliased(vec, index, j, fresh, stale) ==
    LET r == Resize(vec, vec.size + 1, fresh)
        shifted == CopyBackward(r.items, index, r.size - 1, r.size)
        value == IF vec.size + 1 > vec.capacity THEN stale ELSE Get(shifted, j)
    IN  [r EXCEPT !.items = Put(shifted, index, value)]

\* Insert(pos, const Type&) when a copy throws after j elements were shifted.
InsertCopyThrown(vec, index, fresh, j) ==
    LET r == Resize(vec, vec.size + 1, fresh)
    IN  [r EXCEPT !.items = CopyBackward(r.items, r.size - 1 - j, r.size - 1, r.size)]

\* Insert that returns pos as it was given: a position in the buffer the
\* vector had before Resize.
InsertRetStale(vec, index) ==
    [off |-> index,
     buf |-> IF vec.size + 1 > vec.capacity THEN "released" ELSE "current"]

\* The position Insert returns: &items_[index], taken after Resize.
InsertRet(vec, index) == [off |-> index, buf |-> "current"]

\* PopBack without the test for size_ > 0.
PopBackUnguarded(vec) == [vec EXCEPT !.size = vec.size - 1]

\* PopBack()
PopBack(vec) == IF vec.size > 0 THEN [vec EXCEPT !.size = vec.size - 1] ELSE vec

\* Erase that shifts nothing and drops the last element.
EraseDropsLast(vec, index, mf) == [vec EXCEPT !.size = vec.size - 1]

\* Erase(pos), pos = begin() + index; mf is what the moved-from slot is left
\* holding.
Erase(vec, index, mf) ==
    LET moved == MoveFwd(vec.items, index + 1, vec.size, index)
        left  == IF index + 1 < vec.size THEN Put(moved, vec.size - 1, mf) ELSE moved
    IN  [vec EXCEPT !.items = left, !.size = vec.size - 1]

\* The slots Erase touches.
EraseTouches(vec, index) == IF index + 1 < vec.size THEN vec.size ELSE 0

\* The position Erase returns: &items_[index].
EraseRet(vec, index) == [off |-> index, buf |-> "current"]

\* Reserve that swaps the new buffer in without copying the elements.
ReserveNoCopy(vec, new_capacity, fresh) ==
    IF new_capacity > vec.capacity THEN
        [vec EXCEPT !.items = fresh, !.capacity = new_capacity]
    ELSE vec

\* Reserve(new_capacity)
Reserve(vec, new_capacity, fresh) ==
    IF new_capacity > vec.capacity THEN
        LET new_items == Copy(vec.items, 0, vec.size, fresh, 0)
        IN  [vec EXCEPT !.items = new_items, !.capacity = new_capacity]
    ELSE vec

\* Reserve(new_capacity) when the allocation, or a copy into new_items, throws.
ReserveThrown(vec, new_capacity) == vec

\* The slots Reserve(new_capacity) reads, the buffers it may get, and the
\* slots the vector owns afterwards.
ReserveTouches(vec, new_capacity) ==
    IF new_capacity > vec.capacity THEN vec.size ELSE 0

ReserveFresh(vec, new_capacity) ==
    IF new_capacity > vec.capacity THEN ArrayPtrNew(new_capacity) ELSE {ArrayPtrNull}

ReserveSlots(vec, new_capacity) ==
    IF new_capacity > vec.capacity THEN new_capacity ELSE Len(vec.items)

\* std::equal over [first1, last1) and [first2, last2) of random access
\* iterators: the lengths are compared first, then element by element.
RECURSIVE EqualFrom(_, _, _, _)
EqualFrom(buf1, buf2, p, len) ==
    IF p >= len THEN TRUE
    ELSE IF Get(buf1, p) # Get(buf2, p) THEN FALSE
    ELSE EqualFrom(buf1, buf2, p + 1, len)

\* std::lexicographical_compare, from position p on.
RECURSIVE LexCompareFrom(_, _, _, _, _)
LexCompareFrom(buf1, len1, buf2, len2, p) ==
    IF p >= len1 \/ p >= len2 THEN p >= len1 /\ p < len2
    ELSE IF Get(buf1, p) < Get(buf2, p) THEN TRUE
    ELSE IF Get(buf2, p) < Get(buf1, p) THEN FALSE
    ELSE LexCompareFrom(buf1, len1, buf2, len2, p + 1)

\* operator== with the three-iterator std::equal, which stops at lhs.end().
EqualThreeIterators(lhs, rhs) ==
    /\ lhs.size <= rhs.size
    /\ EqualFrom(lhs.items, rhs.items, 0, lhs.size)

\* operator==
Equal(lhs, rhs) ==
    /\ lhs.size = rhs.size
    /\ EqualFrom(lhs.items, rhs.items, 0, lhs.size)

\* operator!=
NotEqual(lhs, rhs) == ~Equal(lhs, rhs)

\* operator<
Less(lhs, rhs) == LexCompareFrom(lhs.items, lhs.size, rhs.items, rhs.size, 0)

\* operator<=
LessEqual(lhs, rhs) == ~Less(rhs, lhs)

\* operator>
Greater(lhs, rhs) == Less(rhs, lhs)

\* operator>=
GreaterEqual(lhs, rhs) == ~Less(lhs, rhs)

\* swap that leaves capacity_ of other as it was.
SwapOtherKeepsCapacity(this, other) ==
    [other EXCEPT !.items = this.items, !.size = this.size]

\* swap(other): what this and other hold afterwards.
SwapThis(this, other) ==
    [this EXCEPT !.items = other.items, !.size = other.size, !.capacity = other.capacity]

SwapOther(this, other) ==
    [other EXCEPT !.items = this.items, !.size = this.size, !.capacity = this.capacity]

\* SimpleVector(SimpleVector&& other): the new vector.
MoveCtorTarget(other) == Vec(other.items, other.size, other.capacity)

\* operator=(SimpleVector&& rhs), this != &rhs: what this holds afterwards.
MoveAssignTarget(lhs, rhs) ==
    [lhs EXCEPT !.items = rhs.items, !.size = rhs.size, !.capacity = rhs.capacity]

\* A move that hands the buffer over and leaves capacity_ of the source as
\* it was.
MovedFromKeepsCapacity(vec) == [vec EXCEPT !.items = ArrayPtrNull, !.size = 0]

\* The source of a move: items_ moved from, size_ and capacity_ exchanged for 0.
MovedFrom(vec) == [vec EXCEPT !.items = ArrayPtrNull, !.size = 0, !.capacity = 0]

\* Copy assignment without the test for this != &rhs: the new buffer is
\* swapped in, and rhs.begin() is then this new buffer, copied onto itself.
CopyAssignSelfUnguarded(vec) == [vec EXCEPT !.items = SomeNew(vec.capacity)]

\* operator=(const SimpleVector& rhs) with this == &rhs: the body is skipped.
CopyAssignSelf(vec) == vec

\* operator=(SimpleVector&& rhs) with this == &rhs: the body is skipped.
MoveAssignSelf(vec) == vec


----------------------------------------------------------------------------
(* The calls. *)

Call(op, exc) == [op |-> op, exc |-> exc]

\* The call replaces the block items_ points at when it needs n slots.
Reallocates(vec, n) == n > vec.capacity

\* The vectors after a call on v that leaves v as vec: what the call wrote
\* through items_ shows in the other vector too when the two point at the
\* same block and the call did not replace the block of v.
Store(v, vec, replaced) ==
    [w \in Vecs |->
        IF w = v THEN vec
        ELSE IF alias /\ ~replaced THEN [vecs[w] EXCEPT !.items = vec.items]
        ELSE vecs[w]]

\* A copy that takes the pointer of the source instead of a block of its own.
CopyShallow(rhs) == rhs.capacity > 0

\* Whether items_ of a copy of rhs points at the block of rhs: the copy
\* constructor and the copy assignment allocate a new block for it.
CopyAliases(rhs) == FALSE

\* The slots the other vector owns leave room for n more.
Fits(v, n) == n + Len(vecs[Other(v)].items) <= MaxHeap

Sizes == 0..MaxHeap

NoUndo == [v |-> "-", index |-> -1, pre |-> <<>>, realloc |-> FALSE, done |-> FALSE]

Init ==
    /\ vecs = [v \in Vecs |-> Empty]
    /\ last = Call("init", "none")
    /\ undo = NoUndo
    /\ ub = FALSE
    /\ alias = FALSE

\* v goes out of scope and is constructed anew with SimpleVector().
DoDefault(v) ==
    /\ ~ub
    /\ vecs' = [vecs EXCEPT ![v] = Empty]
    /\ last' = Call("Default", "none")
    /\ undo' = NoUndo
    /\ UNCHANGED ub
    /\ alias' = FALSE

DoSized(v, n) ==
    /\ ~ub
    /\ Fits(v, n)
    /\ vecs' = [vecs EXCEPT ![v] = Sized(n, SomeNew(n))]
    /\ last' = Call("Sized", "none")
    /\ undo' = NoUndo
    /\ UNCHANGED ub
    /\ alias' = FALSE

DoSizedFill(v, n, value) ==
    /\ ~ub
    /\ Fits(v, n)
    /\ vecs' = [vecs EXCEPT ![v] = SizedFill(n, value, SomeNew(n))]
    /\ last' = Call("SizedFill", "none")
    /\ undo' = NoUndo
    /\ UNCHANGED ub
    /\ alias' = FALSE

DoFromList(v, init) ==
    /\ ~ub
    /\ Fits(v, Len(init))
    /\ vecs' = [vecs EXCEPT ![v] = FromList(init, SomeNew(Len(init)))]
    /\ last' = Call("FromList", "none")
    /\ undo' = NoUndo
    /\ UNCHANGED ub
    /\ alias' = FALSE

DoFromReserve(v, n) ==
    /\ ~ub
    /\ Fits(v, n)
    /\ \E fresh \in ArrayPtrNew(n) :
           vecs' = [vecs EXCEPT ![v] = FromReserve(n, fresh)]
    /\ last' = Call("FromReserve", "none")
    /\ undo' = NoUndo
    /\ UNCHANGED ub
    /\ alias' = FALSE

\* v is constructed anew as a copy of the other vector.
DoCopyCtor(v) ==
    /\ ~ub
    /\ InBounds(vecs[Other(v)], vecs[Other(v)].size)
    /\ Fits(v, vecs[Other(v)].capacity)
    /\ \E fresh \in ArrayPtrNew(vecs[Other(v)].capacity) :
           vecs' = [vecs EXCEPT ![v] = CopyCtor(vecs[Other(v)], fresh)]
    /\ last' = Call("CopyCtor", "none")
    /\ undo' = NoUndo
    /\ UNCHANGED ub
    /\ alias' = CopyAliases(vecs[Other(v)])

\* v is constructed anew from the other vector, moved.
DoMoveCtor(v) ==
    /\ ~ub
    /\ vecs' = [vecs EXCEPT ![v] = MoveCtorTarget(vecs[Other(v)]),
                            ![Other(v)] = MovedFrom(vecs[Other(v)])]
    /\ last' = Call("MoveCtor", "none")
    /\ undo' = NoUndo
    /\ UNCHANGED ub
    /\ alias' = FALSE

\* v = o
DoCopyAssign(v, o) ==
    /\ ~ub
    /\ undo' = NoUndo
    /\ UNCHANGED ub
    /\ \/ /\ v = o
          /\ vecs' = [vecs EXCEPT ![v] = CopyAssignSelf(vecs[v])]
          /\ last' = Call("CopyAssignSelf", "none")
          /\ UNCHANGED alias
       \/ /\ v # o
          /\ InBounds(vecs[o], vecs[o].size)
          /\ Fits(v, vecs[o].capacity)
          /\ \E fresh \in ArrayPtrNew(vecs[o].capacity) :
                 vecs' = [vecs EXCEPT ![v] = CopyAssign(vecs[v], vecs[o], fresh)]
          /\ last' = Call("CopyAssign", "none")
          /\ alias' = CopyAliases(vecs[o])
       \/ /\ v # o
          /\ vecs[o].capacity > 0
          /\ vecs' = [vecs EXCEPT ![v] = CopyAssignBadAlloc(vecs[v], vecs[o])]
          /\ last' = Call("CopyAssign", "bad_alloc")
          /\ UNCHANGED alias

\* v = std::move(o)
DoMoveAssign(v, o) ==
    /\ ~ub
    /\ undo' = NoUndo
    /\ UNCHANGED ub
    /\ \/ /\ v = o
          /\ vecs' = [vecs EXCEPT ![v] = MoveAssignSelf(vecs[v])]
          /\ last' = Call("MoveAssignSelf", "none")
          /\ UNCHANGED alias
       \/ /\ v # o
          /\ vecs' = [vecs EXCEPT ![v] = MoveAssignTarget(vecs[v], vecs[o]),
                                  ![o] = MovedFrom(vecs[o])]
          /\ last' = Call("MoveAssign", "none")
          /\ alias' = FALSE

\* v[index] = value
DoSetAt(v, index, value) ==
    /\ ~ub
    /\ index < vecs[v].size
    /\ InBounds(vecs[v], index + 1)
    /\ vecs' = Store(v, SetAt(vecs[v], index, value), FALSE)
    /\ last' = Call("SetAt", "none")
    /\ undo' = NoUndo
    /\ UNCHANGED ub
    /\ UNCHANGED alias

\* v.At(index)
DoAt(v, index) ==
    /\ ~ub
    /\ last' = Call("At", At(vecs[v], index).exc)
    /\ undo' = NoUndo
    /\ UNCHANGED <<vecs, ub, alias>>

\* v is compared with the other vector, with each of the six operators.
DoCompare(v) ==
    /\ ~ub
    /\ InBounds(vecs[v], vecs[v].size)
    /\ InBounds(vecs[Other(v)], vecs[Other(v)].size)
    /\ last' = Call(IF Equal(vecs[v], vecs[Other(v)]) THEN "equal"
                    ELSE IF Less(vecs[v], vecs[Other(v)]) THEN "less"
                    ELSE "greater", "none")
    /\ undo' = NoUndo
    /\ UNCHANGED <<vecs, ub, alias>>

DoClear(v) ==
    /\ ~ub
    /\ vecs' = [vecs EXCEPT ![v] = Clear(vecs[v])]
    /\ last' = Call("Clear", "none")
    /\ undo' = NoUndo
    /\ UNCHANGED ub
    /\ UNCHANGED alias

DoResize(v, n) ==
    /\ ~ub
    /\ undo' = NoUndo
    /\ UNCHANGED ub
    /\ \/ /\ InBounds(vecs[v], ResizeTouches(vecs[v], n))
          /\ Fits(v, ResizeSlots(vecs[v], n))
          /\ \E fresh \in ResizeFresh(vecs[v], n) :
                 vecs' = Store(v, Resize(vecs[v], n, fresh), Reallocates(vecs[v], n))
          /\ last' = Call("Resize", "none")
          /\ alias' = (alias /\ ~Reallocates(vecs[v], n))
       \/ /\ n > vecs[v].capacity
          /\ vecs' = [vecs EXCEPT ![v] = ResizeBadAlloc(vecs[v], n)]
          /\ last' = Call("Resize", "bad_alloc")
          /\ UNCHANGED alias

DoPushBack(v, item) ==
    /\ ~ub
    /\ undo' = NoUndo
    /\ UNCHANGED ub
    /\ \/ /\ InBounds(vecs[v], ResizeTouches(vecs[v], vecs[v].size + 1))
          /\ Fits(v, ResizeSlots(vecs[v], vecs[v].size + 1))
          /\ \E fresh \in ResizeFresh(vecs[v], vecs[v].size + 1) :
                 vecs' = Store(v, PushBack(vecs[v], item, fresh),
                               Reallocates(vecs[v], vecs[v].size + 1))
          /\ last' = Call("PushBack", "none")
          /\ alias' = (alias /\ ~Reallocates(vecs[v], vecs[v].size + 1))
       \/ /\ vecs[v].size + 1 > vecs[v].capacity
          /\ vecs' = [vecs EXCEPT ![v] = ResizeBadAlloc(vecs[v], vecs[v].size + 1)]
          /\ last' = Call("PushBack", "bad_alloc")
          /\ UNCHANGED alias

DoInsert(v, index, value) ==
    /\ ~ub
    /\ index <= vecs[v].size
    /\ UNCHANGED ub
    /\ \/ /\ InBounds(vecs[v], ResizeTouches(vecs[v], vecs[v].size + 1))
          /\ Fits(v, ResizeSlots(vecs[v], vecs[v].size + 1))
          /\ \E fresh \in ResizeFresh(vecs[v], vecs[v].size + 1) :
                 vecs' = Store(v, Insert(vecs[v], index, value, fresh),
                               Reallocates(vecs[v], vecs[v].size + 1))
          /\ last' = Call("Insert", "none")
          /\ alias' = (alias /\ ~Reallocates(vecs[v], vecs[v].size + 1))
          /\ undo' = [v |-> v, index |-> index, pre |-> Logical(vecs[v]),
                      realloc |-> vecs[v].size + 1 > vecs[v].capacity,
                      done |-> FALSE]
       \/ /\ vecs[v].size + 1 > vecs[v].capacity
          /\ vecs' = [vecs EXCEPT ![v] = ResizeBadAlloc(vecs[v], vecs[v].size + 1)]
          /\ last' = Call("Insert", "bad_alloc")
          /\ UNCHANGED alias
          /\ undo' = NoUndo

\* v.PushBack(v[j])
DoPushBackAliased(v, j) ==
    /\ ~ub
    /\ j < vecs[v].size
    /\ InBounds(vecs[v], Max(j + 1, ResizeTouches(vecs[v], vecs[v].size + 1)))
    /\ Fits(v, ResizeSlots(vecs[v], vecs[v].size + 1))
    /\ \E fresh \in ResizeFresh(vecs[v], vecs[v].size + 1) :
       \E stale \in Values :
           vecs' = Store(v, PushBackAliased(vecs[v], j, fresh, stale),
                         Reallocates(vecs[v], vecs[v].size + 1))
    /\ last' = Call("PushBackAliased", "none")
    /\ alias' = (alias /\ ~Reallocates(vecs[v], vecs[v].size + 1))
    /\ undo' = NoUndo
    /\ UNCHANGED ub

\* v.Insert(v.begin() + index, v[j])
DoInsertAliased(v, index, j) ==
    /\ ~ub
    /\ index <= vecs[v].size
    /\ j < vecs[v].size
    /\ InBounds(vecs[v], Max(j + 1, ResizeTouches(vecs[v], vecs[v].size + 1)))
    /\ Fits(v, ResizeSlots(vecs[v], vecs[v].size + 1))
    /\ \E fresh \in ResizeFresh(vecs[v], vecs[v].size + 1) :
       \E stale \in Values :
           vecs' = Store(v, InsertAliased(vecs[v], index, j, fresh, stale),
                         Reallocates(vecs[v], vecs[v].size + 1))
    /\ last' = Call("InsertAliased", "none")
    /\ alias' = (alias /\ ~Reallocates(vecs[v], vecs[v].size + 1))
    /\ undo' = NoUndo
    /\ UNCHANGED ub

DoPopBack(v) ==
    /\ ~ub
    /\ vecs' = [vecs EXCEPT ![v] = PopBack(vecs[v])]
    /\ last' = Call("PopBack", "none")
    /\ undo' = NoUndo
    /\ UNCHANGED ub
    /\ UNCHANGED alias

DoErase(v, index) ==
    /\ ~ub
    /\ index < vecs[v].size
    /\ InBounds(vecs[v], EraseTouches(vecs[v], index))
    /\ \E mf \in Values :
           vecs' = Store(v, Erase(vecs[v], index, mf), FALSE)
    /\ last' = Call("Erase", "none")
    /\ undo' = IF undo.v = v /\ undo.index = index /\ ~undo.done
               THEN [undo EXCEPT !.done = TRUE]
               ELSE NoUndo
    /\ UNCHANGED ub
    /\ UNCHANGED alias

\* v.swap(other)
DoSwap(v) ==
    /\ ~ub
    /\ vecs' = [vecs EXCEPT ![v] = SwapThis(vecs[v], vecs[Other(v)]),
                            ![Other(v)] = SwapOther(vecs[v], vecs[Other(v)])]
    /\ last' = Call("swap", "none")
    /\ undo' = NoUndo
    /\ UNCHANGED ub
    /\ UNCHANGED alias

DoReserve(v, n) ==
    /\ ~ub
    /\ undo' = NoUndo
    /\ UNCHANGED ub
    /\ \/ /\ InBounds(vecs[v], ReserveTouches(vecs[v], n))
          /\ Fits(v, ReserveSlots(vecs[v], n))
          /\ \E fresh \in ReserveFresh(vecs[v], n) :
                 vecs' = Store(v, Reserve(vecs[v], n, fresh), Reallocates(vecs[v], n))
          /\ last' = Call("Reserve", "none")
          /\ alias' = (alias /\ ~Reallocates(vecs[v], n))
       \/ /\ n > vecs[v].capacity
          /\ vecs' = [vecs EXCEPT ![v] = ReserveThrown(vecs[v], n)]
          /\ last' = Call("Reserve", "bad_alloc")
          /\ UNCHANGED alias

Next ==
    \/ \E v \in Vecs : DoDefault(v)
    \/ \E v \in Vecs, n \in 0..MaxCtor : DoSized(v, n)
    \/ \E v \in Vecs, n \in 0..MaxCtor, value \in Values : DoSizedFill(v, n, value)
    \/ \E v \in Vecs, n \in 0..MaxCtor : \E init \in SeqsOfLen(n) : DoFromList(v, init)
    \/ \E v \in Vecs, n \in 0..MaxCtor : DoFromReserve(v, n)
    \/ \E v \in Vecs : DoCopyCtor(v)
    \/ \E v \in Vecs : DoMoveCtor(v)
    \/ \E v \in Vecs, o \in Vecs : DoCopyAssign(v, o)
    \/ \E v \in Vecs, o \in Vecs : DoMoveAssign(v, o)
    \/ \E v \in Vecs, index \in Sizes, value \in Values : DoSetAt(v, index, value)
    \/ \E v \in Vecs, index \in Sizes : DoAt(v, index)
    \/ \E v \in Vecs : DoCompare(v)
    \/ \E v \in Vecs : DoClear(v)
    \/ \E v \in Vecs, n \in Sizes : DoResize(v, n)
    \/ \E v \in Vecs, item \in Values : DoPushBack(v, item)
    \/ \E v \in Vecs, index \in Sizes, value \in Values : DoInsert(v, index, value)
    \/ \E v \in Vecs, j \in Sizes : DoPushBackAliased(v, j)
    \/ \E v \in Vecs, index \in Sizes, j \in Sizes : DoInsertAliased(v, index, j)
    \/ \E v \in Vecs : DoPopBack(v)
    \/ \E v \in Vecs, index \in Sizes : DoErase(v, index)
    \/ \E v \in Vecs : DoSwap(v)
    \/ \E v \in Vecs, n \in Sizes : DoReserve(v, n)

\* Every call, for an element type whose copy and move do not throw.
Spec == Init /\ [][Next]_vars

\* Only PushBack, on the two default-constructed vectors.
NextPush == \E v \in Vecs, item \in Values : DoPushBack(v, item)

SpecPush == Init /\ [][NextPush]_vars

----------------------------------------------------------------------------
(* The calls that end with an exception thrown by the element type's copy. *)

\* v = other, and copying the k-th element throws.
DoCopyAssignThrows(v) ==
    /\ ~ub
    /\ vecs[Other(v)].size > 0
    /\ InBounds(vecs[Other(v)], vecs[Other(v)].size)
    /\ Fits(v, vecs[Other(v)].capacity)
    /\ \E fresh \in ArrayPtrNew(vecs[Other(v)].capacity) :
       \E k \in 0..(vecs[Other(v)].size - 1) :
           vecs' = [vecs EXCEPT
                       ![v] = CopyAssignCopyThrown(vecs[v], vecs[Other(v)], fresh, k)]
    /\ last' = Call("CopyAssign", "copy_throw")
    /\ undo' = NoUndo
    /\ UNCHANGED ub
    /\ alias' = FALSE

\* PushBack(item), and items_[size_ - 1] = item throws.
DoPushBackThrows(v) ==
    /\ ~ub
    /\ InBounds(vecs[v], ResizeTouches(vecs[v], vecs[v].size + 1))
    /\ Fits(v, ResizeSlots(vecs[v], vecs[v].size + 1))
    /\ \E fresh \in ResizeFresh(vecs[v], vecs[v].size + 1) :
           vecs' = Store(v, PushBackCopyThrown(vecs[v], fresh),
                         Reallocates(vecs[v], vecs[v].size + 1))
    /\ last' = Call("PushBack", "copy_throw")
    /\ alias' = (alias /\ ~Reallocates(vecs[v], vecs[v].size + 1))
    /\ undo' = NoUndo
    /\ UNCHANGED ub

\* Insert(pos, value), and a copy throws after j elements were shifted.
DoInsertThrows(v, index) ==
    /\ ~ub
    /\ index <= vecs[v].size
    /\ InBounds(vecs[v], ResizeTouches(vecs[v], vecs[v].size + 1))
    /\ Fits(v, ResizeSlots(vecs[v], vecs[v].size + 1))
    /\ \E fresh \in ResizeFresh(vecs[v], vecs[v].size + 1) :
       \E j \in 0..(vecs[v].size - index) :
           vecs' = Store(v, InsertCopyThrown(vecs[v], index, fresh, j),
                         Reallocates(vecs[v], vecs[v].size + 1))
    /\ last' = Call("Insert", "copy_throw")
    /\ alias' = (alias /\ ~Reallocates(vecs[v], vecs[v].size + 1))
    /\ undo' = NoUndo
    /\ UNCHANGED ub

\* Reserve(n), and std::copy into new_items throws.
DoReserveThrows(v, n) ==
    /\ ~ub
    /\ n > vecs[v].capacity
    /\ vecs[v].size > 0
    /\ InBounds(vecs[v], vecs[v].size)
    /\ vecs' = [vecs EXCEPT ![v] = ReserveThrown(vecs[v], n)]
    /\ last' = Call("Reserve", "copy_throw")
    /\ undo' = NoUndo
    /\ UNCHANGED ub
    /\ UNCHANGED alias

\* A call on v reads or writes a slot its buffer does not have: undefined
\* behaviour, after which nothing is known of the program.
DoUndefined(v) ==
    /\ ~ub
    /\ \/ Len(vecs[v].items) < vecs[v].size
       \/ Len(vecs[v].items) < vecs[v].capacity
    /\ ub' = TRUE
    /\ last' = Call("undefined", "none")
    /\ undo' = NoUndo
    /\ UNCHANGED <<vecs, alias>>

NextThrow ==
    \/ Next
    \/ \E v \in Vecs : DoCopyAssignThrows(v)
    \/ \E v \in Vecs : DoPushBackThrows(v)
    \/ \E v \in Vecs, index \in Sizes : DoInsertThrows(v, index)
    \/ \E v \in Vecs, n \in Sizes : DoReserveThrows(v, n)
    \/ \E v \in Vecs : DoUndefined(v)

\* Every call, for an element type whose copy may throw.
SpecThrow == Init /\ [][NextThrow]_vars

----------------------------------------------------------------------------
(* The claims. *)

\* size, capacity and the elements of [0, size) are the same in both.
Same(vec1, vec2) ==
    /\ vec1.size = vec2.size
    /\ vec1.capacity = vec2.capacity
    /\ Logical(vec1) = Logical(vec2)

\* size <= capacity, and the buffer holds exactly capacity slots.
Consistent(vec) ==
    /\ vec.size <= vec.capacity
    /\ Len(vec.items) = vec.capacity

\* C1: when a = b ends because copying an element of b threw, a has the
\* size, the capacity and the elements it had before the call.
C1_CopyAssignLeavesTargetOnThrow ==
    [][(last'.op = "CopyAssign" /\ last'.exc = "copy_throw")
        => \A v \in Vecs : Same(vecs'[v], vecs[v])]_vars

\* C2: in every state, whatever calls led to it and however they ended,
\* every vector has size <= capacity and a buffer of exactly capacity slots.
C2_SizeCapacityBuffer == \A v \in Vecs : Consistent(vecs[v])

\* C3: PushBack(x) makes the size one more, keeps the elements there were,
\* in their order, and puts x last (so N calls on an empty vector give size N
\* and the elements in the order they were pushed).
C3_PushBackAppends ==
    \A v \in Vecs, x \in Values :
        \A fresh \in ResizeFresh(vecs[v], vecs[v].size + 1) :
            LET r == PushBack(vecs[v], x, fresh)
            IN  /\ r.size = vecs[v].size + 1
                /\ Logical(r) = Append(Logical(vecs[v]), x)

C3_Witness ==
    /\ last = Call("PushBack", "none")
    /\ \E v \in Vecs :
           /\ vecs[v].size = 3
           /\ vecs[v].capacity = 4
           /\ Logical(vecs[v]) = <<1, 0, 1>>

\* C4: while only PushBack is called on a default-constructed vector, its
\* capacity stays, or goes from 0 to 1, or doubles.
C4_PushBackDoublesCapacity ==
    [][\A v \in Vecs :
          \/ vecs'[v].capacity = vecs[v].capacity
          \/ vecs[v].capacity = 0 /\ vecs'[v].capacity = 1
          \/ vecs[v].capacity > 0 /\ vecs'[v].capacity = 2 * vecs[v].capacity]_vars

C4_Witness ==
    /\ last = Call("PushBack", "none")
    /\ \E v \in Vecs : vecs[v].size = 3 /\ vecs[v].capacity = 4

\* C5: Resize(k) sets the size to k; for k <= size the elements before k
\* stay, for k > size the old elements stay and those from the old size on
\* are the default value, whatever the slots held before.
C5_ResizeTruncatesOrAppendsDefaults ==
    \A v \in Vecs, k \in Sizes :
        \A fresh \in ResizeFresh(vecs[v], k) :
            LET r == Resize(vecs[v], k, fresh)
                old == Logical(vecs[v])
            IN  /\ r.size = k
                /\ k <= vecs[v].size => Logical(r) = SubSeq(old, 1, k)
                /\ k > vecs[v].size =>
                       Logical(r) = old \o Repeat(Default, k - vecs[v].size)

\* Resize has acted, and a vector has a non-default value left in a slot
\* past its size, which a growing Resize has to overwrite.
C5_Witness ==
    /\ last = Call("Resize", "none")
    /\ \E v \in Vecs :
           /\ vecs[v].size = 2
           /\ vecs[v].capacity = 3
           /\ vecs[v].items = <<1, 0, 1>>

\* max(new_size, 2 * capacity), written out.
GrownCapacity(new_size, capacity) ==
    IF new_size > capacity
    THEN (IF new_size >= 2 * capacity THEN new_size ELSE 2 * capacity)
    ELSE capacity

\* C6: Resize(new_size) makes the capacity max(new_size, 2 * capacity) when
\* new_size > capacity and leaves it otherwise; so do PushBack and Insert,
\* with new_size = size + 1.
C6_GrowthPolicy ==
    \A v \in Vecs :
        /\ \A n \in Sizes : \A fresh \in ResizeFresh(vecs[v], n) :
               Resize(vecs[v], n, fresh).capacity = GrownCapacity(n, vecs[v].capacity)
        /\ \A x \in Values : \A fresh \in ResizeFresh(vecs[v], vecs[v].size + 1) :
               /\ PushBack(vecs[v], x, fresh).capacity
                      = GrownCapacity(vecs[v].size + 1, vecs[v].capacity)
               /\ \A i \in 0..vecs[v].size :
                      Insert(vecs[v], i, x, fresh).capacity
                          = GrownCapacity(vecs[v].size + 1, vecs[v].capacity)

\* Resize was the last call and a vector has size 3 and capacity 3, a
\* capacity that doubling from 0 or 1 does not give.
C6_Witness ==
    /\ last = Call("Resize", "none")
    /\ \E v \in Vecs : vecs[v].size = 3 /\ vecs[v].capacity = 3

\* C7: a call that ends with the allocation failing leaves the size, the
\* capacity and the elements of every vector as they were.
C7_BadAllocChangesNothing ==
    [][last'.exc = "bad_alloc" => \A v \in Vecs : Same(vecs'[v], vecs[v])]_vars

C7_Witness ==
    /\ last.exc = "bad_alloc"
    /\ \E v \in Vecs : vecs[v].size = 2 /\ vecs[v].capacity = 2

\* C8: after Insert of x at index i and then Erase at index i, the vector
\* has the elements and the size it had before the Insert.
C8_InsertThenEraseRestores ==
    undo.done =>
        /\ Logical(vecs[undo.v]) = undo.pre
        /\ vecs[undo.v].size = Len(undo.pre)

C8_Witness ==
    /\ undo.done
    /\ undo.realloc
    /\ undo.index = 1
    /\ undo.pre = <<1, 0>>

\* C9: Insert of value at index i gives old[0..i), value, old[i..size), one
\* element more, and returns the position of index i in the buffer the
\* vector has now.
C9_InsertPlacesValue ==
    \A v \in Vecs, x \in Values :
        \A i \in 0..vecs[v].size :
            \A fresh \in ResizeFresh(vecs[v], vecs[v].size + 1) :
                LET r == Insert(vecs[v], i, x, fresh)
                    old == Logical(vecs[v])
                    ret == InsertRet(vecs[v], i)
                IN  /\ r.size = vecs[v].size + 1
                    /\ Logical(r) = SubSeq(old, 1, i) \o <<x>>
                                        \o SubSeq(old, i + 1, vecs[v].size)
                    /\ ret.buf = "current"
                    /\ ret.off = i
                    /\ Get(r.items, ret.off) = x

\* Insert has put 1 at index 1 of <<0, 1>> and reallocated for it.
C9_Witness ==
    /\ last = Call("Insert", "none")
    /\ undo.realloc
    /\ undo.index = 1
    /\ undo.pre = <<0, 1>>
    /\ Logical(vecs[undo.v]) = <<0, 1, 1>>

\* C10: Erase at index i gives old[0..i), old[i+1..size), one element less,
\* the same capacity, and returns the position of index i, which is end()
\* when the last element was erased.
C10_EraseRemovesOne ==
    \A v \in Vecs :
        \A i \in 0..(vecs[v].size - 1) :
            \A mf \in Values :
                LET r == Erase(vecs[v], i, mf)
                    old == Logical(vecs[v])
                    ret == EraseRet(vecs[v], i)
                IN  /\ r.size = vecs[v].size - 1
                    /\ r.capacity = vecs[v].capacity
                    /\ Logical(r) = SubSeq(old, 1, i) \o SubSeq(old, i + 2, vecs[v].size)
                    /\ ret.buf = "current"
                    /\ ret.off = i
                    /\ i = vecs[v].size - 1 => ret.off = r.size

C10_Witness ==
    /\ last = Call("Erase", "none")
    /\ \E v \in Vecs :
           /\ vecs[v].size = 2
           /\ vecs[v].capacity = 4
           /\ Logical(vecs[v]) = <<0, 1>>

\* C11: moving a vector s into a distinct vector d, by construction or by
\* assignment, gives d the size, the capacity and the elements s had and
\* leaves s with size 0 and capacity 0; PushBack, Resize and Reserve on s
\* then do what they do on a default-constructed vector.
C11_MoveTransfersAndEmptiesSource ==
    \A d \in Vecs :
        LET s    == vecs[Other(d)]
            left == MovedFrom(s)
        IN  /\ Same(MoveCtorTarget(s), s)
            /\ Same(MoveAssignTarget(vecs[d], s), s)
            /\ left.size = 0
            /\ left.capacity = 0
            /\ \A x \in Values : \A fresh \in ResizeFresh(Empty, 1) :
                   Same(PushBack(left, x, fresh), PushBack(Empty, x, fresh))
            /\ \A n \in Sizes :
                   /\ \A fresh \in ResizeFresh(Empty, n) :
                          Same(Resize(left, n, fresh), Resize(Empty, n, fresh))
                   /\ \A fresh \in ReserveFresh(Empty, n) :
                          Same(Reserve(left, n, fresh), Reserve(Empty, n, fresh))

\* A move assignment has given one vector the elements 1, 0 and the capacity
\* 2 and left the other one with nothing.
C11_Witness ==
    /\ last = Call("MoveAssign", "none")
    /\ \E d \in Vecs :
           /\ vecs[d].size = 2
           /\ vecs[d].capacity = 2
           /\ Logical(vecs[d]) = <<1, 0>>
           /\ vecs[Other(d)].size = 0
           /\ vecs[Other(d)].capacity = 0

\* C12: assigning a vector to itself, by copy or by move, leaves the size,
\* the capacity and the elements of every vector as they were.
C12_SelfAssignChangesNothing ==
    [][last'.op \in {"CopyAssignSelf", "MoveAssignSelf"}
        => \A v \in Vecs : Same(vecs'[v], vecs[v])]_vars

\* A vector holding 1, 0 has been copy-assigned to itself.
C12_Witness ==
    /\ last = Call("CopyAssignSelf", "none")
    /\ \E v \in Vecs :
           /\ vecs[v].size = 2
           /\ Logical(vecs[v]) = <<1, 0>>

\* C13: a copy, constructed or assigned, has the size, the capacity and the
\* elements of its source and a block of its own: no two vectors ever point
\* at the same block, and a write to an element, PushBack, Insert, Erase,
\* PopBack, Resize, Clear or Reserve on one vector leaves the other one as it
\* was.
C13_CopyIsDeep ==
    /\ ~alias
    /\ \A v \in Vecs :
           LET me  == vecs[v]
               src == vecs[Other(v)]
               Kept(vec, replaced) == Store(v, vec, replaced)[Other(v)] = src
               grows == Reallocates(me, me.size + 1)
           IN  /\ \A fresh \in ArrayPtrNew(src.capacity) :
                      /\ Same(CopyCtor(src, fresh), src)
                      /\ Same(CopyAssign(me, src, fresh), src)
               /\ Kept(Clear(me), FALSE)
               /\ Kept(PopBack(me), FALSE)
               /\ \A i \in 0..(me.size - 1) : \A x \in Values :
                      /\ Kept(SetAt(me, i, x), FALSE)
                      /\ Kept(Erase(me, i, x), FALSE)
               /\ \A x \in Values : \A fresh \in ResizeFresh(me, me.size + 1) :
                      /\ Kept(PushBack(me, x, fresh), grows)
                      /\ \A i \in 0..me.size : Kept(Insert(me, i, x, fresh), grows)
               /\ \A n \in Sizes :
                      /\ \A fresh \in ResizeFresh(me, n) :
                             Kept(Resize(me, n, fresh), Reallocates(me, n))
                      /\ \A fresh \in ReserveFresh(me, n) :
                             Kept(Reserve(me, n, fresh), Reallocates(me, n))

\* A vector has been copy-constructed from one that holds 1 in a block of
\* 2 slots.
C13_Witness ==
    /\ last = Call("CopyCtor", "none")
    /\ \A v \in Vecs :
           /\ vecs[v].size = 1
           /\ vecs[v].capacity = 2
           /\ Logical(vecs[v]) = <<1>>

\* C14: At(i) throws out_of_range for every i >= size, also for the i below
\* the capacity, and for i < size throws nothing and refers to the slot
\* operator[] refers to; a call of At changes no vector.  (At can be called
\* in every state, so the vectors of every state are looked at.)
C14_AtChecksAgainstSize ==
    [][last'.op = "At" =>
          /\ vecs' = vecs
          /\ \A v \in Vecs, i \in Sizes :
                 LET r == At(vecs[v], i)
                 IN  /\ i >= vecs[v].size => r.exc = "out_of_range"
                     /\ i < vecs[v].size =>
                            /\ r.exc = "none"
                            /\ r.off = Subscript(vecs[v], i).off]_vars

\* At has thrown while each vector had one element and a slot past it.
C14_Witness ==
    /\ last = Call("At", "out_of_range")
    /\ \A v \in Vecs : vecs[v].size = 1 /\ vecs[v].capacity = 2

\* C15: Reserve(n) with n <= capacity changes nothing; with n > capacity it
\* makes the capacity exactly n and keeps the size and the elements.
C15_ReserveExactOrNothing ==
    \A v \in Vecs, n \in Sizes :
        \A fresh \in ReserveFresh(vecs[v], n) :
            LET r == Reserve(vecs[v], n, fresh)
            IN  /\ n <= vecs[v].capacity => r = vecs[v]
                /\ n > vecs[v].capacity =>
                       /\ r.capacity = n
                       /\ Len(r.items) = n
                       /\ r.size = vecs[v].size
                       /\ Logical(r) = Logical(vecs[v])

\* Reserve was the last call, and a vector holds 1, 0 in a block of 3 slots.
C15_Witness ==
    /\ last = Call("Reserve", "none")
    /\ \E v \in Vecs :
           /\ vecs[v].size = 2
           /\ vecs[v].capacity = 3
           /\ vecs[v].items = <<1, 0, 1>>

\* s comes before t in the dictionary order: at the first position where
\* they differ s has the smaller element, or s ends there and t does not.
SeqLess(s, t) ==
    \E k \in 0..Len(s) :
        /\ k <= Len(t)
        /\ \A i \in 1..k : s[i] = t[i]
        /\ \/ k = Len(s) /\ k < Len(t)
           \/ k < Len(s) /\ k < Len(t) /\ s[k + 1] < t[k + 1]

\* C16: the six comparisons depend on the elements of [0, size) only: ==
\* holds exactly for equal sizes and pairwise equal elements, < is the
\* dictionary order with a proper prefix coming first, and !=, <=, > and >=
\* are what == and < make them.
C16_ComparisonsAreLogical ==
    \A v \in Vecs, w \in Vecs :
        LET lhs == vecs[v]
            rhs == vecs[w]
            l   == Logical(lhs)
            r   == Logical(rhs)
        IN  /\ Equal(lhs, rhs) <=> l = r
            /\ NotEqual(lhs, rhs) <=> l # r
            /\ Less(lhs, rhs) <=> SeqLess(l, r)
            /\ LessEqual(lhs, rhs) <=> (SeqLess(l, r) \/ l = r)
            /\ Greater(lhs, rhs) <=> SeqLess(r, l)
            /\ GreaterEqual(lhs, rhs) <=> (SeqLess(r, l) \/ l = r)

\* A vector holding 1, with another 1 left in a slot past its size, has been
\* compared with a vector holding 1, 0 and found to be less.
C16_Witness ==
    /\ last = Call("less", "none")
    /\ \E v \in Vecs :
           /\ vecs[v].size = 1
           /\ vecs[v].items = <<1, 1>>
           /\ Logical(vecs[Other(v)]) = <<1, 0>>

\* C17: PopBack on an empty vector changes nothing; on a non-empty one it
\* makes the size one less and keeps the capacity and the elements before
\* the last one.
C17_PopBackDropsLast ==
    \A v \in Vecs :
        LET r == PopBack(vecs[v])
            old == Logical(vecs[v])
        IN  /\ vecs[v].size = 0 => r = vecs[v]
            /\ vecs[v].size > 0 =>
                   /\ r.size = vecs[v].size - 1
                   /\ r.capacity = vecs[v].capacity
                   /\ r.items = vecs[v].items
                   /\ Logical(r) = SubSeq(old, 1, vecs[v].size - 1)

\* PopBack has acted on an empty vector: neither vector has a slot, so the
\* one it was called on had no element.
C17_Witness ==
    /\ last = Call("PopBack", "none")
    /\ \A v \in Vecs : vecs[v].capacity = 0

\* C18: swap gives each of the two vectors the buffer, the size and the
\* capacity the other one had, and a second swap gives them back.
C18_SwapExchanges ==
    [][last'.op = "swap" =>
          \A v \in Vecs :
              LET this  == vecs[v]
                  other == vecs[Other(v)]
                  this1  == SwapThis(this, other)
                  other1 == SwapOther(this, other)
              IN  /\ vecs'[v] = other
                  /\ this1 = other
                  /\ other1 = this
                  /\ SwapThis(this1, other1) = this
                  /\ SwapOther(this1, other1) = other]_vars

\* swap has left one vector with 1, 0 in 2 slots and the other one with no
\* element in 1 slot.
C18_Witness ==
    /\ last = Call("swap", "none")
    /\ \E v \in Vecs :
           /\ vecs[v].size = 2
           /\ vecs[v].capacity = 2
           /\ Logical(vecs[v]) = <<1, 0>>
           /\ vecs[Other(v)].size = 0
           /\ vecs[Other(v)].capacity = 1

\* C19: PushBack(v[j]) and Insert(pos, v[j]), with the argument a reference
\* to an element of the vector itself, place the value that element had
\* before the call, whether the call reallocates or shifts in place.
C19_AliasedArgumentKeepsValue ==
    \A v \in Vecs :
        \A j \in 0..(vecs[v].size - 1) :
            \A fresh \in ResizeFresh(vecs[v], vecs[v].size + 1) :
                \A stale \in Values :
                    /\ Get(PushBackAliased(vecs[v], j, fresh, stale).items, vecs[v].size)
                           = Get(vecs[v].items, j)
                    /\ \A index \in 0..vecs[v].size :
                           Get(InsertAliased(vecs[v], index, j, fresh, stale).items, index)
                               = Get(vecs[v].items, j)

====
